---- MODULE Spec2Model ----
(***************************************************************************)
(* Model of the GPU memory probers (pkg/gpuinfo/nvapi.c for Windows,       *)
(* pkg/gpuinfo/nvidia.c for Linux) and of the ASL log forwarder            *)
(* (logger/asl_darwin.c).                                                  *)
(*                                                                         *)
(* getVRAMSize is modelled block by block: one action per block of the     *)
(* function (load, resolve, init, device fetch, memory query, finish).     *)
(* The operating system's loader and the vendor library are an environment *)
(* `env`; only the set of installed library files changes, and only        *)
(* between calls.  Every external call made is appended to `events`, in    *)
(* the order in which the code makes it.                                   *)
(*                                                                         *)
(* Numbers wider than TLC's integers (NvU32, unsigned long long, size_t)   *)
(* are little-endian sequences of 16-bit limbs.                            *)
(***************************************************************************)
EXTENDS Integers, Sequences, FiniteSets, TLC

VARIABLES
    variant,    \* build target of the prober: "windows" or "linux"
    env,        \* outcomes of the loader and the vendor library
    pc,         \* position of the caller inside getVRAMSize, "idle" outside
    handle,     \* local: library handle
    fn,         \* local: the resolved function pointers, by symbol name
    status,     \* local: status / result of the last vendor call
    count,      \* local (nvapi.c): number of enumerated GPUs
    device,     \* local: handles[0] (nvapi.c) / device (nvidia.c)
    memInfo,    \* local: memInfo (nvapi.c) / memory (nvidia.c)
    events,     \* external calls made by the call in progress
    history,    \* one record [events, ret] per returned call
    loaded,     \* loader: number of open handles per library name
    session,    \* vendor library: number of initialised sessions
    asl,        \* asl_darwin.c static: the client, "NULL" until opened
    level,      \* argument of apple_asl_logger_log
    message,    \* argument of apple_asl_logger_log: its bytes before the NUL
    pos,        \* loop variable of apple_asl_logger_log
    lpc,        \* position inside apple_asl_logger_log
    entries     \* the entries passed to asl_log by the call, in order

pvars == <<variant, env, pc, handle, fn, status, count, device, memInfo,
           events, history, loaded, session>>
lvars == <<asl, level, message, pos, lpc, entries>>
vars == <<variant, env, pc, handle, fn, status, count, device, memInfo,
          events, history, loaded, session, asl, level, message, pos, lpc,
          entries>>

----------------------------------------------------------------------------
(* Bounds of the model. *)

\* number of getVRAMSize calls made in one behaviour
MaxCalls == 2
\* largest GPU count the enumeration reports
MaxGpus == 2
\* longest message passed to apple_asl_logger_log
MaxMsgLen == 2100

----------------------------------------------------------------------------
(* Fixed-width numbers. *)

LimbBits == 16
Base == 65536

\* size_t in limbs: 64 bits, as on the 64-bit targets of the cgo build
\* (NvU32 of nvapi.c has 2 limbs, unsigned long long of nvidia.c has 4)
SizeTLimbs == 4

Zero(n) == [i \in 1..n |-> 0]

\* conversion of an unsigned value to an unsigned type of n limbs:
\* zero-extension or truncation modulo 2^(16 n)
Convert(x, n) == [i \in 1..n |-> IF i <= Len(x) THEN x[i] ELSE 0]

RECURSIVE MulCarry(_, _, _, _)
\* limbs i.. of x * k + carry, the carry out of the last limb dropped
MulCarry(x, k, i, carry) ==
    IF i > Len(x) THEN <<>>
    ELSE LET p == x[i] * k + carry
         IN  <<p % Base>> \o MulCarry(x, k, i + 1, p \div Base)

\* x * k in the type of x (wraps modulo 2^(16 Len(x)))
Mul(x, k) == MulCarry(x, k, 1, 0)

----------------------------------------------------------------------------
(* The environment: the loader and the vendor library. *)

NULL == "NULL"
\* an indeterminate pointer or handle
Uninit == "uninit"
\* a local of integer type: <<>> while indeterminate, <<v>> once assigned v
NoValue == <<>>
Val(v) == <<v>>
NoHandle == "-"

NVAPI_OK == 0
NVML_SUCCESS == 0
\* a non-success status of each vendor library
NvFailures == {-1}
NvmlFailures == {1}

NV_DISPLAY_DRIVER_MEMORY_INFO_VER == 65576   \* 0x10028

PrimaryDll == "nvapi64.dll"
SecondaryDll == "nvapi.dll"
PrimarySo == "libnvidia-ml.so.1"
\* nvidia.c 31 naming the primary library again
SecondarySoRepeated == "libnvidia-ml.so.1"
SecondarySo == "libnvidia-ml.so"

\* the library files a machine may hold
WinLibNames == {"nvapi64.dll", "nvapi.dll"}
LinLibNames == {"libnvidia-ml.so.1", "libnvidia-ml.so"}
Libs == WinLibNames \cup LinLibNames

\* the four symbols each variant looks up, in the order of the lookups
WinSyms == <<"NvAPI_Initialize", "NvAPI_EnumPhysicalGPUs",
             "NvAPI_GPU_GetMemoryInfo", "NvAPI_Unload">>
LinSyms == <<"nvmlInit", "nvmlShutdown", "nvmlDeviceGetHandleByIndex",
             "nvmlDeviceGetMemoryInfo">>

Range(f) == {f[i] : i \in DOMAIN f}

\* dedicatedVideoMemory values (NvU32, in KB): 0, 1, 2^22 - 1, 2^22 (the
\* first whose byte count needs more than 32 bits), 2^23 = 8388608, 2^32 - 1
WinMemValues == {<<0, 0>>, <<1, 0>>, <<65535, 63>>, <<0, 64>>, <<0, 128>>,
                 <<65535, 65535>>}
\* total values (unsigned long long, in bytes): 0, 1, 2^32, 2^33 = 8589934592,
\* 2^64 - 1
LinMemValues == {<<0, 0, 0, 0>>, <<1, 0, 0, 0>>, <<0, 0, 1, 0>>,
                 <<0, 0, 2, 0>>, <<65535, 65535, 65535, 65535>>}

\* the devices of a machine, in the order in which the vendor library
\* numbers and enumerates them
GpuNames == <<"gpu0", "gpu1", "gpu2", "gpu3", "gpu4">>

\* what NvAPI_EnumPhysicalGPUs writes to handles when it reports n devices
EnumeratedHandles(n) == SubSeq(GpuNames, 1, n)

\* the device nvmlDeviceGetHandleByIndex yields for an index
DeviceAtIndex(index) == GpuNames[index + 1]

\* the fields of NV_DISPLAY_DRIVER_MEMORY_INFO, each an NvU32 of 4 bytes
MemInfoFields == <<"version", "dedicatedVideoMemory",
                   "availableDedicatedVideoMemory", "systemVideoMemory",
                   "sharedSystemMemory">>
NvU32Bytes == 4
SizeofMemInfo == Len(MemInfoFields) * NvU32Bytes

\* The outcomes a machine can present.  The size reported is drawn from all
\* the values where every step before the memory query succeeds; where a
\* failure keeps the probe from the query, one non-zero size stands for all.
WinOutcomes == [libs : SUBSET WinLibNames,
                exports : SUBSET Range(WinSyms),
                init : {NVAPI_OK} \cup NvFailures,
                fetch : {NVAPI_OK} \cup NvFailures,
                count : 0..MaxGpus,
                query : {NVAPI_OK} \cup NvFailures,
                mem : WinMemValues]

WinAnswers(e) ==
    /\ e.libs # {} /\ Range(WinSyms) \subseteq e.exports
    /\ e.init = NVAPI_OK /\ e.fetch = NVAPI_OK /\ e.count > 0
    /\ e.query = NVAPI_OK

WinEnvs == {e \in WinOutcomes : WinAnswers(e) \/ e.mem = <<0, 128>>}

LinOutcomes == [libs : SUBSET LinLibNames,
                exports : SUBSET Range(LinSyms),
                init : {NVML_SUCCESS} \cup NvmlFailures,
                fetch : {NVML_SUCCESS} \cup NvmlFailures,
                query : {NVML_SUCCESS} \cup NvmlFailures,
                mem : LinMemValues]

LinAnswers(e) ==
    /\ e.libs # {} /\ Range(LinSyms) \subseteq e.exports
    /\ e.init = NVML_SUCCESS /\ e.fetch = NVML_SUCCESS
    /\ e.query = NVML_SUCCESS

LinEnvs == {e \in LinOutcomes : LinAnswers(e) \/ e.mem = <<0, 0, 2, 0>>}

\* LoadLibraryA / dlopen: a handle to the named library, NULL if it cannot
\* be opened.  The handle is written as the name of the library it opened.
LoadLibrary(name) == IF name \in env.libs THEN name ELSE NULL

\* the loader's table after an open that returned h
Opened(ld, h) == [l \in DOMAIN ld |-> IF l = h THEN ld[l] + 1 ELSE ld[l]]

\* the loader's table after k calls of FreeLibrary(h) / dlclose(h)
Closed(ld, h, k) == [l \in DOMAIN ld |-> IF l = h THEN ld[l] - k ELSE ld[l]]

\* GetProcAddress / dlsym: the address of the named export, NULL if the
\* library does not export it.  The address is written as the symbol's name.
GetProcAddress(h, name) == IF name \in env.exports THEN name ELSE NULL

\* an external call: the function called (a loader function by name, a
\* vendor function by the pointer it is called through), the library handle
\* passed, the other argument, the version tag of the record passed, and
\* the result
Ev(op, h, arg, ver, res) ==
    [op |-> op, h |-> h, arg |-> arg, ver |-> ver, res |-> res]

StatusName(st) == IF st = 0 THEN "OK" ELSE "ERROR"

\* the lookups of all four symbols on handle h, in order
Lookups(op, h, syms) ==
    [i \in 1..Len(syms) |->
        Ev(op, h, syms[i], 0, GetProcAddress(h, syms[i]))]

\* return v: the call is over and leaves the events evs behind
Return(evs, v) ==
    /\ pc' = "idle"
    /\ events' = evs
    /\ history' = Append(history, [env |-> env, events |-> evs, ret |-> v])

CountOf(calls, c) == Cardinality({i \in DOMAIN calls : calls[i] = c})

\* the clean-up calls of an exit path, in order: "shutdown" calls the
\* resolved shutdown function sd, "free" unloads the library with freeOp
CleanupEvents(calls, sd, freeOp) ==
    [i \in 1..Len(calls) |->
        IF calls[i] = "shutdown"
        THEN Ev(fn[sd], NoHandle, NoHandle, 0, StatusName(0))
        ELSE Ev(freeOp, handle, NoHandle, 0, NoHandle)]

\* an exit path: after the events e, make the clean-up calls and return v
Leave(e, calls, sd, freeOp, v) ==
    /\ session' = session - CountOf(calls, "shutdown")
    /\ loaded' = Closed(loaded, handle, CountOf(calls, "free"))
    /\ Return(e \o CleanupEvents(calls, sd, freeOp), v)

----------------------------------------------------------------------------
(* getVRAMSize, pkg/gpuinfo/nvapi.c *)

\* nvapi.c 22 with the last non-zero result kept in a static and returned
\* without a new probe
W_CallCached ==
    /\ variant = "windows" /\ pc = "idle" /\ Len(history) < MaxCalls
    /\ IF history # <<>> /\ history[Len(history)].ret # Zero(SizeTLimbs)
       THEN /\ Return(<<>>, history[Len(history)].ret)
            /\ UNCHANGED <<handle, status, device, fn, memInfo, count>>
       ELSE /\ pc' = "load"
            /\ handle' = Uninit /\ status' = NoValue /\ device' = Uninit
            /\ fn' = [s \in Range(WinSyms) |-> Uninit]
            /\ memInfo' = [version |-> NoValue,
                           dedicatedVideoMemory |-> NoValue]
            /\ count' = 0
            /\ events' = <<>>
            /\ UNCHANGED history
    /\ UNCHANGED <<variant, env, loaded, session>>

\* entry (nvapi.c 22-32): the locals are indeterminate, except count = 0
W_Call ==
    /\ variant = "windows" /\ pc = "idle" /\ Len(history) < MaxCalls
    /\ pc' = "load"
    /\ handle' = Uninit /\ status' = NoValue /\ device' = Uninit
    /\ fn' = [s \in Range(WinSyms) |-> Uninit]
    /\ memInfo' = [version |-> NoValue, dedicatedVideoMemory |-> NoValue]
    /\ count' = 0
    /\ events' = <<>>
    /\ UNCHANGED <<variant, env, history, loaded, session>>

\* nvapi.c 36, 38 with the tests lost: the code goes on without a handle
W_OpenFailedNever(h) == FALSE

\* the tests of nvapi.c 36, 38: the open returned no handle
W_OpenFailed(h) == h = NULL

\* nvapi.c 35-41
W_Load ==
    /\ variant = "windows" /\ pc = "load"
    /\ LET h1 == LoadLibrary(PrimaryDll)
           e1 == events \o <<Ev("LoadLibraryA", NoHandle, PrimaryDll, 0, h1)>>
           h2 == LoadLibrary(SecondaryDll)
           e2 == e1 \o <<Ev("LoadLibraryA", NoHandle, SecondaryDll, 0, h2)>>
       IN  IF ~W_OpenFailed(h1)
           THEN /\ handle' = h1 /\ loaded' = Opened(loaded, h1)
                /\ events' = e1 /\ pc' = "resolve"
                /\ UNCHANGED history
           ELSE IF ~W_OpenFailed(h2)
           THEN /\ handle' = h2 /\ loaded' = Opened(loaded, h2)
                /\ events' = e2 /\ pc' = "resolve"
                /\ UNCHANGED history
           ELSE /\ handle' = h2 /\ UNCHANGED loaded
                /\ Return(e2, Zero(SizeTLimbs))
    /\ UNCHANGED <<variant, env, fn, status, count, device, memInfo, session>>

\* the condition of nvapi.c 49
W_SymbolMissing(f) ==
    \/ f["NvAPI_Initialize"] = NULL
    \/ f["NvAPI_EnumPhysicalGPUs"] = NULL
    \/ f["NvAPI_GPU_GetMemoryInfo"] = NULL
    \/ f["NvAPI_Unload"] = NULL

\* the clean-up of nvapi.c 50
W_ExitResolve == <<"free">>

\* nvapi.c 44-52
W_Resolve ==
    /\ variant = "windows" /\ pc = "resolve"
    /\ LET f == [s \in Range(WinSyms) |-> GetProcAddress(handle, s)]
           e == events \o Lookups("GetProcAddress", handle, WinSyms)
       IN  /\ fn' = f
           /\ IF W_SymbolMissing(f)
              THEN Leave(e, W_ExitResolve, "NvAPI_Unload", "FreeLibrary",
                         Zero(SizeTLimbs))
              ELSE /\ events' = e /\ pc' = "init"
                   /\ UNCHANGED <<loaded, session, history>>
    /\ UNCHANGED <<variant, env, handle, status, count, device, memInfo>>

\* nvapi.c 56 without the FreeLibrary
W_ExitInitLeak == <<>>

\* the clean-up of nvapi.c 56
W_ExitInit == <<"free">>

\* nvapi.c 54-58 with a retry: a failed init unloads and starts over
W_InitRetry ==
    /\ variant = "windows" /\ pc = "init"
    /\ LET st == env.init
           e == events \o <<Ev(fn["NvAPI_Initialize"], NoHandle, NoHandle, 0,
                               StatusName(st))>>
       IN  /\ status' = Val(st)
           /\ IF st # NVAPI_OK
              THEN /\ events' = e \o CleanupEvents(<<"free">>, "NvAPI_Unload",
                                                   "FreeLibrary")
                   /\ loaded' = Closed(loaded, handle, 1)
                   /\ pc' = "load"
                   /\ UNCHANGED <<session, history>>
              ELSE /\ events' = e /\ pc' = "fetch"
                   /\ session' = session + 1
                   /\ UNCHANGED <<loaded, history>>
    /\ UNCHANGED <<variant, env, handle, fn, count, device, memInfo>>

\* nvapi.c 54-58
W_Init ==
    /\ variant = "windows" /\ pc = "init"
    /\ LET st == env.init
           e == events \o <<Ev(fn["NvAPI_Initialize"], NoHandle, NoHandle, 0,
                     StatusName(st))>>
       IN  /\ status' = Val(st)
           /\ IF st # NVAPI_OK
              THEN Leave(e, W_ExitInit, "NvAPI_Unload", "FreeLibrary",
                         Zero(SizeTLimbs))
              ELSE /\ events' = e /\ pc' = "fetch"
                   /\ session' = session + 1
                   /\ UNCHANGED <<loaded, history>>
    /\ UNCHANGED <<variant, env, handle, fn, count, device, memInfo>>

\* nvapi.c 61 without the test of count
W_EnumFailedIgnoresCount(st, n) == st # NVAPI_OK

\* the condition of nvapi.c 61
W_EnumFailed(st, n) == st # NVAPI_OK \/ n = 0

\* nvapi.c 62-63 in the other order: the library is unloaded, then the
\* shutdown function it held is called
W_ExitEnumUnloadFirst == <<"free", "shutdown">>

\* the clean-up of nvapi.c 62-63
W_ExitEnum == <<"shutdown", "free">>

\* nvapi.c 68 passing the last enumerated handle
W_LastDevice(handles) == handles[Len(handles)]

\* the device argument of nvapi.c 68: handles[0]
W_FirstDevice(handles) == handles[1]

\* nvapi.c 60-65
W_Enum ==
    /\ variant = "windows" /\ pc = "fetch"
    /\ LET st == env.fetch
           n == IF st = NVAPI_OK THEN env.count ELSE count
           e == events \o
                <<Ev(fn["NvAPI_EnumPhysicalGPUs"], NoHandle, NoHandle, 0,
                     StatusName(st))>>
       IN  /\ status' = Val(st)
           /\ count' = n
           /\ device' = IF st = NVAPI_OK /\ n > 0
                        THEN W_FirstDevice(EnumeratedHandles(n))
                        ELSE device
           /\ IF W_EnumFailed(st, n)
              THEN Leave(e, W_ExitEnum, "NvAPI_Unload", "FreeLibrary",
                         Zero(SizeTLimbs))
              ELSE /\ events' = e /\ pc' = "query"
                   /\ UNCHANGED <<loaded, session, history>>
    /\ UNCHANGED <<variant, env, handle, fn, memInfo>>

\* the clean-up of nvapi.c 70-71
W_ExitMemInfo == <<"shutdown", "free">>

\* nvapi.c 67-73
W_MemInfo ==
    /\ variant = "windows" /\ pc = "query"
    /\ LET ver == NV_DISPLAY_DRIVER_MEMORY_INFO_VER
           st == env.query
           e == events \o
                <<Ev(fn["NvAPI_GPU_GetMemoryInfo"], NoHandle, device, ver,
                     StatusName(st))>>
       IN  /\ status' = Val(st)
           /\ memInfo' = [version |-> Val(ver),
                          dedicatedVideoMemory |->
                              IF st = NVAPI_OK THEN env.mem
                              ELSE memInfo.dedicatedVideoMemory]
           /\ IF st # NVAPI_OK
              THEN Leave(e, W_ExitMemInfo, "NvAPI_Unload", "FreeLibrary",
                         Zero(SizeTLimbs))
              ELSE /\ events' = e /\ pc' = "finish"
                   /\ UNCHANGED <<loaded, session, history>>
    /\ UNCHANGED <<variant, env, handle, fn, count, device>>

\* the clean-up of nvapi.c 75-76
W_ExitFinish == <<"shutdown", "free">>

\* nvapi.c 79 without the cast: the product is taken in NvU32
W_BytesNarrow(kb) == Convert(Mul(kb, 1024), SizeTLimbs)

\* the returned expression of nvapi.c 79:
\* (size_t)memInfo.dedicatedVideoMemory * 1024
W_Bytes(kb) == Mul(Convert(kb, SizeTLimbs), 1024)

\* nvapi.c 75-79
W_Finish ==
    /\ variant = "windows" /\ pc = "finish"
    /\ Leave(events, W_ExitFinish, "NvAPI_Unload", "FreeLibrary",
             W_Bytes(memInfo.dedicatedVideoMemory))
    /\ UNCHANGED <<variant, env, handle, fn, status, count, device, memInfo>>

----------------------------------------------------------------------------
(* getVRAMSize, pkg/gpuinfo/nvidia.c *)

\* entry (nvidia.c 17-26): all locals are indeterminate
L_Call ==
    /\ variant = "linux" /\ pc = "idle" /\ Len(history) < MaxCalls
    /\ pc' = "load"
    /\ handle' = Uninit /\ status' = NoValue /\ device' = Uninit
    /\ fn' = [s \in Range(LinSyms) |-> Uninit]
    /\ memInfo' = [total |-> NoValue]
    /\ events' = <<>>
    /\ UNCHANGED <<variant, env, count, history, loaded, session>>

\* the tests of nvidia.c 30, 32: the open returned no handle
L_OpenFailed(h) == h = NULL

\* nvidia.c 29-35
L_Load ==
    /\ variant = "linux" /\ pc = "load"
    /\ LET h1 == LoadLibrary(PrimarySo)
           e1 == events \o <<Ev("dlopen", NoHandle, PrimarySo, 0, h1)>>
           h2 == LoadLibrary(SecondarySo)
           e2 == e1 \o <<Ev("dlopen", NoHandle, SecondarySo, 0, h2)>>
       IN  IF ~L_OpenFailed(h1)
           THEN /\ handle' = h1 /\ loaded' = Opened(loaded, h1)
                /\ events' = e1 /\ pc' = "resolve"
                /\ UNCHANGED history
           ELSE IF ~L_OpenFailed(h2)
           THEN /\ handle' = h2 /\ loaded' = Opened(loaded, h2)
                /\ events' = e2 /\ pc' = "resolve"
                /\ UNCHANGED history
           ELSE /\ handle' = h2 /\ UNCHANGED loaded
                /\ Return(e2, Zero(SizeTLimbs))
    /\ UNCHANGED <<variant, env, fn, status, count, device, memInfo, session>>

\* nvidia.c 43 without the test of nvmlShutdown
L_SymbolMissingButShutdown(f) ==
    \/ f["nvmlInit"] = NULL
    \/ f["nvmlDeviceGetHandleByIndex"] = NULL
    \/ f["nvmlDeviceGetMemoryInfo"] = NULL

\* the condition of nvidia.c 43
L_SymbolMissing(f) ==
    \/ f["nvmlInit"] = NULL
    \/ f["nvmlShutdown"] = NULL
    \/ f["nvmlDeviceGetHandleByIndex"] = NULL
    \/ f["nvmlDeviceGetMemoryInfo"] = NULL

\* the clean-up of nvidia.c 44
L_ExitResolve == <<"free">>

\* nvidia.c 38-46
L_Resolve ==
    /\ variant = "linux" /\ pc = "resolve"
    /\ LET f == [s \in Range(LinSyms) |-> GetProcAddress(handle, s)]
           e == events \o Lookups("dlsym", handle, LinSyms)
       IN  /\ fn' = f
           /\ IF L_SymbolMissing(f)
              THEN Leave(e, L_ExitResolve, "nvmlShutdown", "dlclose",
                         Zero(SizeTLimbs))
              ELSE /\ events' = e /\ pc' = "init"
                   /\ UNCHANGED <<loaded, session, history>>
    /\ UNCHANGED <<variant, env, handle, status, count, device, memInfo>>

\* nvidia.c 50 with a shutdown of the session that never started
L_ExitInitShutdown == <<"shutdown", "free">>

\* the clean-up of nvidia.c 50
L_ExitInit == <<"free">>

\* nvidia.c 48-52
L_Init ==
    /\ variant = "linux" /\ pc = "init"
    /\ LET st == env.init
           e == events \o <<Ev(fn["nvmlInit"], NoHandle, NoHandle, 0,
                     StatusName(st))>>
       IN  /\ status' = Val(st)
           /\ IF st # NVML_SUCCESS
              THEN Leave(e, L_ExitInit, "nvmlShutdown", "dlclose",
                         Zero(SizeTLimbs))
              ELSE /\ events' = e /\ pc' = "fetch"
                   /\ session' = session + 1
                   /\ UNCHANGED <<loaded, history>>
    /\ UNCHANGED <<variant, env, handle, fn, count, device, memInfo>>

\* nvidia.c 55 with the test left out
L_GetHandleFailedNever(st) == FALSE

\* the condition of nvidia.c 55
L_GetHandleFailed(st) == st # NVML_SUCCESS

\* the clean-up of nvidia.c 56-57
L_ExitGetHandle == <<"shutdown", "free">>

\* the index passed at nvidia.c 54
L_Index == 0

\* nvidia.c 54-59
L_GetHandle ==
    /\ variant = "linux" /\ pc = "fetch"
    /\ LET st == env.fetch
           e == events \o
                <<Ev(fn["nvmlDeviceGetHandleByIndex"], NoHandle,
                     IF L_Index = 0 THEN "0" ELSE "other", 0,
                     StatusName(st))>>
       IN  /\ status' = Val(st)
           /\ device' = IF st = NVML_SUCCESS THEN DeviceAtIndex(L_Index)
                        ELSE device
           /\ IF L_GetHandleFailed(st)
              THEN Leave(e, L_ExitGetHandle, "nvmlShutdown", "dlclose",
                         Zero(SizeTLimbs))
              ELSE /\ events' = e /\ pc' = "query"
                   /\ UNCHANGED <<loaded, session, history>>
    /\ UNCHANGED <<variant, env, handle, fn, count, memInfo>>

\* the clean-up of nvidia.c 63-64
L_ExitMemInfo == <<"shutdown", "free">>

\* nvidia.c 61-66
L_MemInfo ==
    /\ variant = "linux" /\ pc = "query"
    /\ LET st == env.query
           e == events \o
                <<Ev(fn["nvmlDeviceGetMemoryInfo"], NoHandle, device, 0,
                     StatusName(st))>>
       IN  /\ status' = Val(st)
           /\ memInfo' = [total |-> IF st = NVML_SUCCESS THEN env.mem
                                    ELSE memInfo.total]
           /\ IF st # NVML_SUCCESS
              THEN Leave(e, L_ExitMemInfo, "nvmlShutdown", "dlclose",
                         Zero(SizeTLimbs))
              ELSE /\ events' = e /\ pc' = "finish"
                   /\ UNCHANGED <<loaded, session, history>>
    /\ UNCHANGED <<variant, env, handle, fn, count, device>>

\* the clean-up of nvidia.c 68-69
L_ExitFinish == <<"shutdown", "free">>

\* nvidia.c 70 returning through a 32-bit type
L_BytesNarrow(total) == Convert(Convert(total, 2), SizeTLimbs)

\* the returned expression of nvidia.c 70: memory.total, converted from
\* unsigned long long to size_t
L_Bytes(total) == Convert(total, SizeTLimbs)

\* nvidia.c 68-70
L_Finish ==
    /\ variant = "linux" /\ pc = "finish"
    /\ Leave(events, L_ExitFinish, "nvmlShutdown", "dlclose",
             L_Bytes(memInfo.total))
    /\ UNCHANGED <<variant, env, handle, fn, status, count, device, memInfo>>

----------------------------------------------------------------------------
(* apple_asl_logger_log, logger/asl_darwin.c *)

\* the size tested at asl_darwin.c 25 and the step of asl_darwin.c 28
SplitLimit == 1024
step == 1000

\* "[...] " and " [...]" as bytes
ContinuedPrefix == <<91, 46, 46, 46, 93, 32>>
ContinuesSuffix == <<32, 91, 46, 46, 46, 93>>

\* the messages logged: one of every length up to MaxMsgLen, of non-NUL
\* bytes that differ between any two positions less than 251 apart
MsgOfLen(n) == [i \in 1..n |-> 1 + ((i - 1) % 251)]
Levels == {3, 7}

strlen(m) == Len(m)

Min(a, b) == IF a < b THEN a ELSE b

\* "%.*s" reading from one byte too far
PrecisionOffByOne(n, m, p) == SubSeq(m, p + 2, Min(p + n, Len(m)))

\* "%.*s" with precision n on the string m + p: at most n bytes from
\* offset p on, stopping at the end of the string
Precision(n, m, p) == SubSeq(m, p + 1, Min(p + n, Len(m)))

\* asl_darwin.c 25 with <= for <
UnsplitInclusive(len) == len <= SplitLimit

\* the test of asl_darwin.c 25
Unsplit(len) == len < SplitLimit

\* the first argument of the format, asl_darwin.c 32
Prefix(p) == IF p # 0 THEN ContinuedPrefix ELSE <<>>

\* asl_darwin.c 34 with <= for <
SuffixInclusive(p, len) ==
    IF p + step <= len THEN ContinuesSuffix ELSE <<>>

\* the last argument of the format, asl_darwin.c 34
Suffix(p, len) == IF p + step < len THEN ContinuesSuffix ELSE <<>>

\* entry (asl_darwin.c 16)
Log_Call ==
    /\ variant = "darwin" /\ lpc = "idle"
    /\ \E n \in 0..MaxMsgLen : message' = MsgOfLen(n)
    /\ level' \in Levels
    /\ lpc' = "open"
    /\ entries' = <<>>
    /\ UNCHANGED <<asl, pos>>

\* asl_darwin.c 17-20
Log_Open ==
    /\ lpc = "open"
    /\ asl' = IF asl = NULL THEN "Docker" ELSE asl
    /\ lpc' = "len"
    /\ UNCHANGED <<level, message, pos, entries>>

\* asl_darwin.c 24-26: the message goes out whole
Log_Whole ==
    /\ lpc = "len" /\ Unsplit(strlen(message))
    /\ entries' = Append(entries, [level |-> level, text |-> message])
    /\ lpc' = "ret"
    /\ UNCHANGED <<asl, level, message, pos>>

\* asl_darwin.c 27-29: the loop starts at pos = 0
Log_Split ==
    /\ lpc = "len" /\ ~Unsplit(strlen(message))
    /\ pos' = 0
    /\ lpc' = "loop"
    /\ UNCHANGED <<asl, level, message, entries>>

\* asl_darwin.c 29-35: one turn of the loop
Log_Chunk ==
    /\ lpc = "loop" /\ pos < strlen(message)
    /\ entries' = Append(entries,
            [level |-> level,
             text |-> Prefix(pos) \o Precision(step, message, pos)
                      \o Suffix(pos, strlen(message))])
    /\ pos' = pos + step
    /\ UNCHANGED <<asl, level, message, lpc>>

\* asl_darwin.c 29: the loop ends
Log_LoopEnd ==
    /\ lpc = "loop" /\ ~(pos < strlen(message))
    /\ lpc' = "ret"
    /\ UNCHANGED <<asl, level, message, pos, entries>>

\* asl_darwin.c 37: the call returns; its arguments and locals are gone
Log_Return ==
    /\ lpc = "ret"
    /\ lpc' = "idle"
    /\ level' = 0 /\ message' = <<>> /\ pos' = 0 /\ entries' = <<>>
    /\ UNCHANGED asl

----------------------------------------------------------------------------
(* The prober as a program: an environment, then calls one after another. *)

LogIdle ==
    /\ asl = NULL /\ level = 0 /\ message = <<>> /\ pos = 0 /\ lpc = "idle"
    /\ entries = <<>>

Init ==
    /\ variant \in {"windows", "linux"}
    /\ env \in IF variant = "windows" THEN WinEnvs ELSE LinEnvs
    /\ pc = "idle"
    /\ handle = Uninit /\ status = NoValue /\ device = Uninit
    /\ fn = [s \in Range(IF variant = "windows" THEN WinSyms ELSE LinSyms)
                |-> Uninit]
    /\ memInfo = (IF variant = "windows"
                  THEN [version |-> NoValue, dedicatedVideoMemory |-> NoValue]
                  ELSE [total |-> NoValue])
    /\ count = 0
    /\ events = <<>> /\ history = <<>>
    /\ loaded = [l \in Libs |-> 0]
    /\ session = 0
    /\ LogIdle

\* between two calls the driver's library files may be installed or removed;
\* what an opened library exports and answers stays the same
SetLibs ==
    /\ pc = "idle" /\ history # <<>> /\ Len(history) < MaxCalls
    /\ \E ls \in SUBSET (IF variant = "windows" THEN WinLibNames
                         ELSE LinLibNames) :
           /\ ls # env.libs
           /\ env' = [env EXCEPT !.libs = ls]
    /\ UNCHANGED <<variant, pc, handle, fn, status, count, device, memInfo,
                   events, history, loaded, session>>

Next ==
    \/ (SetLibs /\ UNCHANGED lvars)
    \/ (W_Call /\ UNCHANGED lvars)
    \/ (W_Load /\ UNCHANGED lvars)
    \/ (W_Resolve /\ UNCHANGED lvars)
    \/ (W_Init /\ UNCHANGED lvars)
    \/ (W_Enum /\ UNCHANGED lvars)
    \/ (W_MemInfo /\ UNCHANGED lvars)
    \/ (W_Finish /\ UNCHANGED lvars)
    \/ (L_Call /\ UNCHANGED lvars)
    \/ (L_Load /\ UNCHANGED lvars)
    \/ (L_Resolve /\ UNCHANGED lvars)
    \/ (L_Init /\ UNCHANGED lvars)
    \/ (L_GetHandle /\ UNCHANGED lvars)
    \/ (L_MemInfo /\ UNCHANGED lvars)
    \/ (L_Finish /\ UNCHANGED lvars)

Spec == Init /\ [][Next]_vars

\* the calling thread runs on for as long as every external call returns
FairSpec == Spec /\ WF_vars(Next)

----------------------------------------------------------------------------
(* Properties of getVRAMSize.  They are stated over the returned calls in  *)
(* `history`: the environment each call met, the external calls it made    *)
(* and the value it returned.                                              *)

LoadOps == {"LoadLibraryA", "dlopen"}
LookupOps == {"GetProcAddress", "dlsym"}
FreeOps == {"FreeLibrary", "dlclose"}
LoaderOps == LoadOps \cup LookupOps \cup FreeOps
InitNames == {"NvAPI_Initialize", "nvmlInit"}
ShutdownNames == {"NvAPI_Unload", "nvmlShutdown"}

\* the events of evs that satisfy Test, as a set of positions
Where(evs, Test(_)) == {i \in DOMAIN evs : Test(evs[i])}

IsOpen(ev) == ev.op \in LoadOps /\ ev.res # NULL
IsLoad(ev) == ev.op \in LoadOps
IsLookup(ev) == ev.op \in LookupOps
IsFree(ev) == ev.op \in FreeOps
IsShutdown(ev) == ev.op \in ShutdownNames
IsVendorCall(ev) == ev.op \notin LoaderOps
IsInitOk(ev) == ev.op \in InitNames /\ ev.res = "OK"
IsInitFailed(ev) == ev.op \in InitNames /\ ev.res # "OK"

PrimaryName == IF variant = "windows" THEN "nvapi64.dll"
               ELSE "libnvidia-ml.so.1"
SecondaryName == IF variant = "windows" THEN "nvapi.dll"
                 ELSE "libnvidia-ml.so"
RequiredSyms == IF variant = "windows"
                THEN {"NvAPI_Initialize", "NvAPI_EnumPhysicalGPUs",
                      "NvAPI_GPU_GetMemoryInfo", "NvAPI_Unload"}
                ELSE {"nvmlInit", "nvmlShutdown",
                      "nvmlDeviceGetHandleByIndex", "nvmlDeviceGetMemoryInfo"}

\* the failures an environment injects, by name
Failures(e) ==
    (IF e.libs = {} THEN {"open"} ELSE {})
    \cup (RequiredSyms \ e.exports)
    \cup (IF e.init # 0 THEN {"init"} ELSE {})
    \cup (IF e.fetch # 0 THEN {"fetch"} ELSE {})
    \cup (IF variant = "windows" /\ e.count = 0 THEN {"count"} ELSE {})
    \cup (IF e.query # 0 THEN {"query"} ELSE {})

IsZero(x) == \A i \in DOMAIN x : x[i] = 0

\* C1: a call that meets an injected failure (no library opens, a required
\* symbol is missing, init, the device fetch or the memory query reports
\* non-success, or the enumeration reports zero devices) returns exactly 0.
C1_FailureReturnsZero ==
    \A i \in DOMAIN history :
        Failures(history[i].env) # {} => history[i].ret = Zero(SizeTLimbs)

\* a Windows call whose only failure is an enumeration of zero devices,
\* with a memory size that would not have been 0, has returned
C1_Witness ==
    \E i \in DOMAIN history :
        /\ Failures(history[i].env) = {"count"}
        /\ ~IsZero(history[i].env.mem)
        /\ history[i].ret = Zero(SizeTLimbs)

\* C2: a returned call has unloaded the library as many times as it opened
\* one, which is at most once, and between calls no library handle is open.
C2_ResourceSymmetry ==
    /\ \A i \in DOMAIN history :
          LET evs == history[i].events
          IN  /\ Cardinality(Where(evs, IsFree))
                   = Cardinality(Where(evs, IsOpen))
              /\ Cardinality(Where(evs, IsOpen)) <= 1
    /\ pc = "idle" => \A l \in Libs : loaded[l] = 0

\* a call that opened the secondary library and failed at init has returned
C2_Witness ==
    \E i \in DOMAIN history :
        LET evs == history[i].events
        IN  /\ history[i].env.libs = {SecondaryName}
            /\ Where(evs, IsInitFailed) # {}
            /\ Cardinality(Where(evs, IsFree)) = 1

\* C3: a returned call has called the shutdown function once if its init
\* returned success and not at all otherwise; a call whose init returned
\* non-success returned 0 after exactly one unload; between calls no vendor
\* session is left initialised.
C3_SessionSymmetry ==
    /\ \A i \in DOMAIN history :
          LET evs == history[i].events
          IN  /\ Cardinality(Where(evs, IsShutdown))
                   = (IF Where(evs, IsInitOk) # {} THEN 1 ELSE 0)
              /\ Where(evs, IsInitFailed) # {} =>
                    /\ history[i].ret = Zero(SizeTLimbs)
                    /\ Cardinality(Where(evs, IsFree)) = 1
                    /\ Where(evs, IsShutdown) = {}
    /\ pc = "idle" => session = 0

\* a call whose library loaded, whose symbols all resolved and whose init
\* failed has returned
C3_Witness ==
    \E i \in DOMAIN history :
        /\ Failures(history[i].env) = {"init"}
        /\ Where(history[i].events, IsInitFailed) # {}

\* bit i of a number in limbs, 0 beyond its width
Bit(x, i) ==
    IF i \div LimbBits >= Len(x) THEN 0
    ELSE (x[(i \div LimbBits) + 1] \div (2 ^ (i % LimbBits))) % 2

\* y is x * 2^k exactly, x of xbits bits and y of ybits bits
IsShifted(y, ybits, x, xbits, k) ==
    \A i \in 0..(ybits - 1) :
        Bit(y, i) = (IF i >= k /\ i < k + xbits THEN Bit(x, i - k) ELSE 0)

\* C4: a call that meets no failure returns the reported memory size in
\* bytes: 1024 times dedicatedVideoMemory on Windows, total itself on Linux;
\* 8388608 KB and 8589934592 bytes (2^33) both give 8589934592.
C4_SuccessReturnsBytes ==
    \A i \in DOMAIN history :
        LET e == history[i].env
            r == history[i].ret
        IN  Failures(e) = {} =>
                /\ Len(r) = SizeTLimbs
                /\ variant = "windows" => IsShifted(r, 64, e.mem, 32, 10)
                /\ variant = "linux" => IsShifted(r, 64, e.mem, 64, 0)
                /\ variant = "windows" /\ e.mem = <<0, 128>>
                      => r = <<0, 0, 2, 0>>
                /\ variant = "linux" /\ e.mem = <<0, 0, 2, 0>>
                      => r = <<0, 0, 2, 0>>

\* a fully successful Windows probe of 8388608 KB has returned 2^33
C4_Witness ==
    \E i \in DOMAIN history :
        /\ variant = "windows"
        /\ Failures(history[i].env) = {}
        /\ history[i].env.mem = <<0, 128>>
        /\ history[i].ret = <<0, 0, 2, 0>>

\* C5: when the primary library cannot be opened and the secondary can, the
\* call goes on with the secondary handle: the four lookups and the one
\* unload are made on the handle the secondary open returned, and the call
\* returns what a call returns that opens the primary library and meets the
\* same outcomes afterwards.
C5_Fallback ==
    \A i \in DOMAIN history :
        LET c == history[i]
            evs == c.events
        IN  (PrimaryName \notin c.env.libs /\ SecondaryName \in c.env.libs) =>
                /\ Len(evs) >= 2
                /\ IsLoad(evs[1]) /\ evs[1].arg = PrimaryName
                /\ evs[1].res = NULL
                /\ IsOpen(evs[2]) /\ evs[2].arg = SecondaryName
                /\ Cardinality(Where(evs, IsLookup)) = 4
                /\ \A k \in Where(evs, IsLookup) : evs[k].h = evs[2].res
                /\ Cardinality(Where(evs, IsFree)) = 1
                /\ \A k \in Where(evs, IsFree) :
                      evs[k].h = evs[2].res /\ k = Len(evs)
                /\ \A j \in DOMAIN history :
                      LET d == history[j]
                      IN  (/\ PrimaryName \in d.env.libs
                           /\ d.env = [c.env EXCEPT !.libs = d.env.libs])
                          => d.ret = c.ret

\* a call on the secondary library and a call on the primary one have both
\* returned the same non-zero size
C5_Witness ==
    \E i, j \in DOMAIN history :
        /\ history[i].env.libs = {SecondaryName}
        /\ PrimaryName \in history[j].env.libs
        /\ ~IsZero(history[i].ret)
        /\ history[j].ret = history[i].ret

\* C6: when neither library opens, the call returns 0 having made the two
\* open attempts and nothing else: no lookup, no vendor call, no unload.
C6_NothingOpened ==
    \A i \in DOMAIN history :
        LET evs == history[i].events
        IN  history[i].env.libs = {} =>
                /\ history[i].ret = Zero(SizeTLimbs)
                /\ Len(evs) = 2
                /\ \A k \in DOMAIN evs : IsLoad(evs[k]) /\ evs[k].res = NULL

\* a call has returned on a machine with neither library, whose vendor
\* library would otherwise have answered every call
C6_Witness ==
    \E i \in DOMAIN history : Failures(history[i].env) = {"open"}

\* C7: two calls that meet the same environment return the same value and
\* make the same external calls in the same order, each starting with an
\* open of its own; the second reuses nothing of the first.
C7_Idempotent ==
    /\ \A i, j \in DOMAIN history :
          history[i].env = history[j].env =>
              /\ history[i].ret = history[j].ret
              /\ history[i].events = history[j].events
    /\ \A i \in DOMAIN history :
          /\ history[i].events # <<>>
          /\ IsLoad(history[i].events[1])
          /\ history[i].events[1].arg = PrimaryName
          /\ Where(history[i].events, IsOpen) # {} =>
                IsFree(history[i].events[Len(history[i].events)])

\* two successful calls in the same environment have returned
C7_Witness ==
    /\ Len(history) >= 2
    /\ history[1].env = history[2].env
    /\ ~IsZero(history[2].ret)
    /\ Cardinality(Where(history[2].events, IsOpen)) = 1

\* C8: provided the external calls return, a call that has started returns,
\* and it does so after at most 11 external calls (two opens, four lookups,
\* init, fetch, query, shutdown, unload): there is no loop and no wait.
C8_Terminates ==
    /\ [](Len(events) <= 11)
    /\ (pc # "idle") ~> (pc = "idle")

\* a call has reached its last block, eight or nine external calls made
C8_Witness == pc = "finish" /\ Len(events) >= 8

\* C10: no vendor function is called unless the four lookups have been made
\* and each returned non-null; a call that found a symbol missing released
\* the library once, called no vendor function and returned 0.
C10_SymbolGate ==
    /\ Where(events, IsVendorCall) # {} =>
          /\ Cardinality(Where(events, IsLookup)) = 4
          /\ \A k \in Where(events, IsLookup) : events[k].res # NULL
    /\ \A i \in DOMAIN history :
          LET evs == history[i].events
          IN  (\E k \in Where(evs, IsLookup) : evs[k].res = NULL) =>
                  /\ Where(evs, IsVendorCall) = {}
                  /\ Cardinality(Where(evs, IsFree)) = 1
                  /\ history[i].ret = Zero(SizeTLimbs)

\* a call that lacked only the shutdown symbol has returned
C10_Witness ==
    \E i \in DOMAIN history :
        /\ Cardinality(RequiredSyms \ history[i].env.exports) = 1
        /\ Failures(history[i].env) \subseteq ShutdownNames
        /\ Failures(history[i].env) # {}

FetchNames == {"NvAPI_EnumPhysicalGPUs", "nvmlDeviceGetHandleByIndex"}
QueryNames == {"NvAPI_GPU_GetMemoryInfo", "nvmlDeviceGetMemoryInfo"}

IsInit(ev) == ev.op \in InitNames
IsFetch(ev) == ev.op \in FetchNames
IsQuery(ev) == ev.op \in QueryNames

\* the place of an external call in the lifecycle, 0 for a call that has none
Stage(ev) ==
    IF IsLoad(ev) THEN 1
    ELSE IF IsLookup(ev) THEN 2
    ELSE IF IsInit(ev) THEN 3
    ELSE IF IsFetch(ev) THEN 4
    ELSE IF IsQuery(ev) THEN 5
    ELSE IF IsShutdown(ev) THEN 6
    ELSE IF IsFree(ev) THEN 7
    ELSE 0

\* C11: the external calls of one call come in the order open, lookups,
\* init, device fetch, memory query, shutdown, unload; a shutdown comes
\* strictly before the unload; after the shutdown or the unload no vendor
\* function is called and no device handle is passed.
C11_Lifecycle ==
    /\ \A k \in DOMAIN events : Stage(events[k]) # 0
    /\ \A j, k \in DOMAIN events :
          j < k =>
              /\ Stage(events[j]) <= Stage(events[k])
              /\ Stage(events[j]) > 2 => Stage(events[j]) < Stage(events[k])
              /\ IsShutdown(events[j]) \/ IsFree(events[j]) =>
                    /\ IsFree(events[k])
                    /\ events[k].arg \notin Range(GpuNames)
    /\ \A j, k \in DOMAIN events :
          IsShutdown(events[j]) /\ IsFree(events[k]) => j < k

\* a call has gone through every stage, with both opens, and returned
C11_Witness ==
    /\ pc = "idle" /\ Len(events) = 11
    /\ IsShutdown(events[10]) /\ IsFree(events[11])

IsFetchOk(ev) == IsFetch(ev) /\ ev.res = "OK"
IsFetchFailed(ev) == IsFetch(ev) /\ ev.res # "OK"

\* C12: the memory query is made only after a device fetch that returned
\* success and yielded a device (on Windows a count of at least 1), and on
\* the first device (handles[0], index 0); a call whose fetch failed or
\* yielded no device made no memory query, called shutdown and unload once
\* each and returned 0.
C12_DeviceGate ==
    /\ \A k \in Where(events, IsQuery) :
          /\ \E j \in Where(events, IsFetchOk) : j < k
          /\ variant = "windows" => count >= 1 /\ env.count >= 1
          /\ variant = "linux" =>
                \A j \in Where(events, IsFetch) : events[j].arg = "0"
          /\ events[k].arg = GpuNames[1]
    /\ \A i \in DOMAIN history :
          LET evs == history[i].events
              noDevice == \/ Where(evs, IsFetchFailed) # {}
                          \/ /\ variant = "windows"
                             /\ Where(evs, IsFetchOk) # {}
                             /\ history[i].env.count = 0
          IN  noDevice =>
                  /\ Where(evs, IsQuery) = {}
                  /\ Cardinality(Where(evs, IsShutdown)) = 1
                  /\ Cardinality(Where(evs, IsFree)) = 1
                  /\ history[i].ret = Zero(SizeTLimbs)

\* on a machine that enumerates two devices the memory query has been made
C12_Witness ==
    /\ variant = "windows" /\ env.count = 2 /\ count = 2
    /\ Where(events, IsQuery) # {}

\* the positions of evs at which the named library is opened, or the named
\* symbol looked up
Naming(evs, name) == {k \in DOMAIN evs : evs[k].arg = name
                                         /\ evs[k].op \in LoadOps \cup LookupOps}

\* C13: within one call at most two opens are attempted, the secondary only
\* after the primary failed; no symbol is looked up twice, and once a
\* library is open each of the four is looked up exactly once; init, device
\* fetch and memory query are each called at most once, whatever they return.
C13_NoRetry ==
    /\ Cardinality(Where(events, IsLoad)) <= 2
    /\ Cardinality(Naming(events, PrimaryName)) <= 1
    /\ Cardinality(Naming(events, SecondaryName)) <= 1
    /\ \A k \in Naming(events, SecondaryName) :
          \E j \in Naming(events, PrimaryName) :
              j < k /\ events[j].res = NULL
    /\ \A k \in Where(events, IsLoad) :
          events[k].arg \in {PrimaryName, SecondaryName}
    /\ \A sym \in RequiredSyms : Cardinality(Naming(events, sym)) <= 1
    /\ Cardinality(Where(events, IsInit)) <= 1
    /\ Cardinality(Where(events, IsFetch)) <= 1
    /\ Cardinality(Where(events, IsQuery)) <= 1
    /\ \A i \in DOMAIN history :
          LET evs == history[i].events
          IN  Where(evs, IsOpen) # {} =>
                  /\ Cardinality(Where(evs, IsLookup)) = 4
                  /\ \A sym \in RequiredSyms :
                        Cardinality(Naming(evs, sym)) = 1

\* a call whose init failed after the secondary library opened has
\* returned, having tried each open once and init once
C13_Witness ==
    \E i \in DOMAIN history :
        LET evs == history[i].events
        IN  /\ Cardinality(Where(evs, IsLoad)) = 2
            /\ Where(evs, IsInitFailed) # {}
            /\ Cardinality(Where(evs, IsInit)) = 1
            /\ Cardinality(Where(evs, IsLookup)) = 4

\* the abstract event an external call stands for
Kind(ev) ==
    IF IsLoad(ev) THEN "open"
    ELSE IF IsLookup(ev) THEN "lookup"
    ELSE IF IsInit(ev) THEN "init"
    ELSE IF IsFetch(ev) THEN "fetch"
    ELSE IF IsQuery(ev) THEN "query"
    ELSE IF IsShutdown(ev) THEN "shutdown"
    ELSE IF IsFree(ev) THEN "unload"
    ELSE "other"

AbstractTrace(evs) == [k \in DOMAIN evs |-> Kind(evs[k])]

\* the outcomes of the abstract steps in environment e; the device fetch of
\* the Windows variant succeeds when it reports success and a device
Outcomes(e) ==
    [open1 |-> PrimaryName \in e.libs,
     open2 |-> SecondaryName \in e.libs,
     symbols |-> RequiredSyms \subseteq e.exports,
     init |-> e.init = 0,
     fetch |-> e.fetch = 0 /\ (variant = "windows" => e.count > 0),
     query |-> e.query = 0]

\* the abstract events one call issues under outcomes o, whatever the variant
Skeleton(o) ==
    LET Lookups4 == <<"lookup", "lookup", "lookup", "lookup">>
        Opens == IF o.open1 THEN <<"open">> ELSE <<"open", "open">>
        AfterFetch == IF o.fetch THEN <<"query", "shutdown", "unload">>
                      ELSE <<"shutdown", "unload">>
        AfterInit == IF o.init THEN <<"fetch">> \o AfterFetch
                     ELSE <<"unload">>
        AfterLookups == IF o.symbols THEN <<"init">> \o AfterInit
                        ELSE <<"unload">>
    IN  IF ~o.open1 /\ ~o.open2 THEN Opens
        ELSE Opens \o Lookups4 \o AfterLookups

\* whether a call under outcomes o returns a converted memory value
Answers(o) ==
    (o.open1 \/ o.open2) /\ o.symbols /\ o.init /\ o.fetch /\ o.query

\* C14: in both variants the abstract events of a call (open, lookup, init,
\* fetch, query, shutdown, unload) are the one sequence the outcomes of the
\* abstract steps determine, and the call returns 0 unless every step
\* succeeded, when it returns the reported size converted to bytes (times
\* 1024 from dedicatedVideoMemory on Windows, total unchanged on Linux).
C14_SameSkeleton ==
    \A i \in DOMAIN history :
        LET c == history[i]
            o == Outcomes(c.env)
        IN  /\ AbstractTrace(c.events) = Skeleton(o)
            /\ ~Answers(o) => IsZero(c.ret)
            /\ Answers(o) =>
                  IsShifted(c.ret, 64, c.env.mem,
                            IF variant = "windows" THEN 32 ELSE 64,
                            IF variant = "windows" THEN 10 ELSE 0)

\* a Linux call whose device fetch failed after the fallback open has
\* returned with the ten abstract events of that case
C14_Witness ==
    \E i \in DOMAIN history :
        /\ variant = "linux"
        /\ Outcomes(history[i].env) =
              [open1 |-> FALSE, open2 |-> TRUE, symbols |-> TRUE,
               init |-> TRUE, fetch |-> FALSE, query |-> TRUE]
        /\ AbstractTrace(history[i].events) =
              <<"open", "open", "lookup", "lookup", "lookup", "lookup",
                "init", "fetch", "shutdown", "unload">>

\* the size component of a version/size tag: its low 16 bits
TagSize(tag) == tag % 65536

\* C15: on Windows every memory query is made with the record's version
\* field set to NV_DISPLAY_DRIVER_MEMORY_INFO_VER (0x10028), and the size
\* component of that tag equals the byte size of the record passed (five
\* 32-bit fields).
C15_VersionTagMatches ==
    variant = "windows" =>
        \A k \in Where(events, IsQuery) :
            /\ events[k].ver = NV_DISPLAY_DRIVER_MEMORY_INFO_VER
            /\ memInfo.version = Val(NV_DISPLAY_DRIVER_MEMORY_INFO_VER)
            /\ TagSize(events[k].ver) = SizeofMemInfo

\* the call whose external calls are evs ran the whole success path: one
\* library opened, four symbols resolved, init, device fetch and memory
\* query reported success, then one shutdown and one unload, in that order
FullSuccessPath(evs) ==
    /\ Cardinality(Where(evs, IsOpen)) = 1
    /\ Cardinality(Where(evs, IsLookup)) = 4
    /\ \A k \in Where(evs, IsLookup) : evs[k].res # NULL
    /\ \E a, b, c \in DOMAIN evs :
          /\ a < b /\ b < c /\ c = Len(evs) - 2
          /\ IsInitOk(evs[a]) /\ IsFetchOk(evs[b])
          /\ IsQuery(evs[c]) /\ evs[c].res = "OK"
    /\ \A k \in Where(evs, IsVendorCall) :
          IsShutdown(evs[k]) \/ evs[k].res = "OK"
    /\ Where(evs, IsShutdown) = {Len(evs) - 1}
    /\ Where(evs, IsFree) = {Len(evs)}

\* C17: a call that returned a non-zero value ran the whole success path,
\* shutdown and unload each called exactly once before the return; a call
\* that ran it returns 0 exactly when the query reported zero memory, so
\* that a zero return comes from a failure or from such a report.
C17_NonZeroMeansSuccess ==
    \A i \in DOMAIN history :
        LET c == history[i]
        IN  /\ ~IsZero(c.ret) =>
                  /\ FullSuccessPath(c.events)
                  /\ Failures(c.env) = {}
                  /\ ~IsZero(c.env.mem)
            /\ FullSuccessPath(c.events) =>
                  (IsZero(c.ret) <=> IsZero(c.env.mem))

\* a Linux call has returned 2^32, after eleven or ten external calls
C17_Witness ==
    \E i \in DOMAIN history :
        /\ variant = "linux"
        /\ history[i].ret = <<0, 0, 1, 0>>
        /\ FullSuccessPath(history[i].events)

\* the limbs of kb * 1024 for a 32-bit kb, computed limb by limb with
\* nothing dropped
ExactProduct(kb) ==
    LET low == kb[1] * 1024
        high == kb[2] * 1024 + (low \div Base)
    IN  <<low % Base, high % Base, high \div Base, 0>>

\* C18: with a size_t of 64 bits the value a successful probe returns is
\* neither wrapped nor truncated: on Windows it is the exact product of the
\* 32-bit KB count and 1024, beyond 2^32 for counts of 4194304 KB and more;
\* on Linux it is the 64-bit total, limb for limb.
C18_NoWrap ==
    \A i \in DOMAIN history :
        LET e == history[i].env
            r == history[i].ret
        IN  Failures(e) = {} =>
                /\ variant = "windows" =>
                      /\ Len(e.mem) = 2
                      /\ r = ExactProduct(e.mem)
                      /\ e.mem[2] >= 64 => r[3] > 0
                /\ variant = "linux" =>
                      /\ Len(e.mem) = 4
                      /\ r = e.mem

\* a Windows probe of 4294967295 KB has returned 2^42 - 1024
C18_Witness ==
    \E i \in DOMAIN history :
        /\ variant = "windows"
        /\ Failures(history[i].env) = {}
        /\ history[i].env.mem = <<65535, 65535>>
        /\ history[i].ret = <<64512, 65535, 1023, 0>>

----------------------------------------------------------------------------
(* Properties of apple_asl_logger_log, stated when the call is about to    *)
(* return (lpc = "ret"), over the entries it passed to asl_log.            *)

StartsWith(t, m) == Len(t) >= Len(m) /\ SubSeq(t, 1, Len(m)) = m
EndsWith(t, m) == Len(t) >= Len(m) /\ SubSeq(t, Len(t) - Len(m) + 1, Len(t)) = m

\* entry k of n with the markers of its position taken off
Portion(t, k, n) ==
    SubSeq(t, (IF k > 1 THEN Len(ContinuedPrefix) ELSE 0) + 1,
           Len(t) - (IF k < n THEN Len(ContinuesSuffix) ELSE 0))

\* C9: a message of more than 1024 bytes goes out as ceil(len / 1000)
\* entries, in order of position; each carries at most 1000 bytes of the
\* message; every entry but the first starts with "[...] " and the first
\* does not, every entry but the last ends with " [...]" and the last does
\* not.
C9_SplitEntries ==
    (lpc = "ret" /\ Len(message) > 1024) =>
        LET n == Len(entries)
            len == Len(message)
        IN  /\ n * 1000 >= len /\ (n - 1) * 1000 < len
            /\ \A k \in 1..n :
                  LET t == entries[k].text
                      body == Portion(t, k, n)
                  IN  /\ StartsWith(t, ContinuedPrefix) <=> k > 1
                      /\ EndsWith(t, ContinuesSuffix) <=> k < n
                      /\ Len(body) <= 1000
                      /\ body = SubSeq(message, 1000 * (k - 1) + 1,
                                       1000 * (k - 1) + Len(body))

\* a message of exactly 2000 bytes has gone out as two entries
C9_Witness ==
    lpc = "ret" /\ Len(message) = 2000 /\ Len(entries) = 2

\* C16: a message is split exactly when it is longer than 1024 bytes: every
\* message of 1024 bytes or fewer, the empty one and the one of exactly 1024
\* bytes included, goes out as one entry equal to the message, and every
\* longer one as more than one entry.
C16_SplitOnlyAbove1024 ==
    lpc = "ret" =>
        /\ Len(message) <= 1024 =>
              entries = <<[level |-> level, text |-> message]>>
        /\ Len(message) > 1024 => Len(entries) > 1

RECURSIVE Rejoin(_, _)
\* the message portions of the first k entries of es, one after the other
Rejoin(es, k) ==
    IF k = 0 THEN <<>>
    ELSE Rejoin(es, k - 1) \o Portion(es[k].text, k, Len(es))

\* C19: the message portions of the entries of one call, the markers the
\* call added taken off, give the message back when put end to end in the
\* order emitted: no byte is dropped, repeated or moved; when there is more
\* than one entry none has an empty portion.
C19_RoundTrip ==
    lpc = "ret" =>
        LET n == Len(entries)
        IN  /\ n >= 1
            /\ Rejoin(entries, n) = message
            /\ \A k \in 1..n :
                  /\ k > 1 => StartsWith(entries[k].text, ContinuedPrefix)
                  /\ k < n => EndsWith(entries[k].text, ContinuesSuffix)
                  /\ Len(entries[k].text) >=
                        (IF k > 1 THEN Len(ContinuedPrefix) ELSE 0)
                        + (IF k < n THEN Len(ContinuesSuffix) ELSE 0)
                  /\ n > 1 => Portion(entries[k].text, k, n) # <<>>

\* a message of 2001 bytes has gone out as three entries, the last with
\* one byte of it
C19_Witness ==
    /\ lpc = "ret" /\ Len(message) = 2001 /\ Len(entries) = 3
    /\ Len(Portion(entries[3].text, 3, 3)) = 1

----------------------------------------------------------------------------
(* The log forwarder as a program: calls one after another. *)

LogInit ==
    /\ variant = "darwin"
    /\ env = <<>>
    /\ pc = "idle"
    /\ handle = Uninit /\ status = NoValue /\ device = Uninit
    /\ fn = <<>> /\ memInfo = <<>> /\ count = 0
    /\ events = <<>> /\ history = <<>>
    /\ loaded = [l \in Libs |-> 0]
    /\ session = 0
    /\ LogIdle

LogNext ==
    \/ (Log_Call /\ UNCHANGED pvars)
    \/ (Log_Open /\ UNCHANGED pvars)
    \/ (Log_Whole /\ UNCHANGED pvars)
    \/ (Log_Split /\ UNCHANGED pvars)
    \/ (Log_Chunk /\ UNCHANGED pvars)
    \/ (Log_LoopEnd /\ UNCHANGED pvars)
    \/ (Log_Return /\ UNCHANGED pvars)

LogSpec == LogInit /\ [][LogNext]_vars

====
